---- MODULE Spec2Model ----
(***************************************************************************)
(* A model of kis9a/cockroachdb-errors-example: the error classification   *)
(* helpers of package domain (domain/errors.go), and the retry driver      *)
(* RetryWithBackoff of example 02 (listed in README.md).                   *)
(*                                                                         *)
(* An error value is the sequence of its chain's nodes, outermost first;   *)
(* the nil error is the empty sequence.  Durations are counted in          *)
(* milliseconds, and the initial delays are multiples of 5 ms, so that     *)
(* int64(delay)/5 is exact in this unit.                                   *)
(***************************************************************************)
EXTENDS Integers, Sequences, FiniteSets, TLC

\* ------------------------------------------------------------------ bounds

\* The largest maxRetries the driver is called with.
MaxAttemptsBound == 5

\* The largest number of helper calls applied on top of a base error.
MaxDepth == 3

\* ------------------------------------------------------------- error values

Nil == <<>>

\* One node of an error chain: its type, its text and its number (0 when unused).
L(k, v, n) == [k |-> k, v |-> v, n |-> n]

\* crdberrors.New: a leaf with a captured stack.
New(msg) == <<L("stack", "", 0), L("leaf", msg, 0)>>

ErrTemporary == New("temporary error")

ErrPermanent == New("permanent error")

\* The message tokens of a chain: prefixes and the leaf, outermost first
\* (Error() joins them with ": "; the other nodes are transparent).
RECURSIVE ErrorMsg(_)
ErrorMsg(e) ==
    IF e = Nil THEN <<>>
    ELSE IF Head(e).k \in {"prefix", "leaf", "exchange"}
         THEN <<[v |-> Head(e).v, n |-> Head(e).n]>> \o ErrorMsg(Tail(e))
         ELSE ErrorMsg(Tail(e))

Types(e) == [i \in 1..Len(e) |-> e[i].k]

\* The mark of a chain: a mark node carries the mark of the reference it was
\* made with; any other chain is known by its message and its nodes' types.
GetMark(e) ==
    IF Head(e).k = "mark"
    THEN [msg |-> ErrorMsg(New(Head(e).v)), types |-> Types(New(Head(e).v))]
    ELSE [msg |-> ErrorMsg(e), types |-> Types(e)]

\* crdberrors.Mark(err, reference), reference being one of the two sentinels.
Mark(e, ref) == IF e = Nil THEN Nil ELSE <<L("mark", ref[2].v, 0)>> \o e

IsFirstMarkOnly(e, ref) ==
    \E i \in 1..Len(e) :
        LET s == SubSeq(e, i, Len(e))
        IN  /\ s = ref \/ GetMark(s) = GetMark(ref)
            /\ \A j \in 1..(i - 1) : e[j].k # "mark"

\* crdberrors.Is(err, reference): some node of the chain is the reference or
\* has the reference's mark.
Is(e, ref) ==
    \E i \in 1..Len(e) :
        LET s == SubSeq(e, i, Len(e))
        IN  s = ref \/ GetMark(s) = GetMark(ref)

WithStack(e) == IF e = Nil THEN Nil ELSE <<L("stack", "", 0)>> \o e

WithDomain(e, d) == IF e = Nil THEN Nil ELSE <<L("domain", d, 0)>> \o e

NoDomain == ""

RECURSIVE GetDomainInnermost(_)
GetDomainInnermost(e) ==
    IF e = Nil THEN NoDomain
    ELSE IF GetDomainInnermost(Tail(e)) # NoDomain
         THEN GetDomainInnermost(Tail(e))
         ELSE IF Head(e).k = "domain" THEN Head(e).v ELSE NoDomain

\* crdberrors.GetDomain: the domain of the outermost domain node of the
\* chain, NoDomain when there is none.
RECURSIVE GetDomain(_)
GetDomain(e) ==
    IF e = Nil THEN NoDomain
    ELSE IF Head(e).k = "domain" THEN Head(e).v ELSE GetDomain(Tail(e))

WithHint(e, h) == IF e = Nil THEN Nil ELSE <<L("hint", h, 0)>> \o e

WithDetail(e, d) == IF e = Nil THEN Nil ELSE <<L("detail", d, 0)>> \o e

WithTelemetry(e, key) == IF e = Nil THEN Nil ELSE <<L("telemetry", key, 0)>> \o e

\* crdberrors.Wrapf(err, format, n): nil for a nil err, else a message
\* prefix with a captured stack.
Wrapf(e, msg, n) ==
    IF e = Nil THEN Nil ELSE <<L("stack", "", 0), L("prefix", msg, n)>> \o e

Wrap(e, msg) == Wrapf(e, msg, 0)

\* ---------------------------------------------------------- package domain

MarkTemporaryWrongSentinel(e) == Mark(e, ErrPermanent)

MarkTemporary(e) == Mark(e, ErrTemporary)

IsTemporaryUnlessPermanent(e) == ~Is(e, ErrPermanent)

IsTemporary(e) == Is(e, ErrTemporary)

MarkPermanent(e) == Mark(e, ErrPermanent)

IsPermanentUnlessTemporary(e) == ~Is(e, ErrTemporary)

IsPermanent(e) == Is(e, ErrPermanent)

NewExchangeError(code, retry) ==
    LET base    == <<L("exchange", code, 0)>>
        wrapped == WithDetail(WithDomain(WithStack(base), "exchange"), code)
        marked  == IF retry
                   THEN WithHint(MarkTemporary(wrapped), "temporary")
                   ELSE WithHint(MarkPermanent(wrapped), "permanent")
    IN  WithTelemetry(marked, code)

WrapWithDomainFlattens(e, msg, d) ==
    IF e = Nil THEN Nil ELSE WithDomain(New(msg), d)

WrapWithDomain(e, msg, d) == IF e = Nil THEN Nil ELSE WithDomain(Wrap(e, msg), d)

WrapWithStack(e, msg) == IF e = Nil THEN Nil ELSE WithStack(Wrap(e, msg))

\* ------------------------------------------------------------ package logx

\* The threshold of the logger that init() installs.
Threshold == "info"

LevelRank(level) ==
    CASE level = "debug" -> 0
      [] level = "info"  -> 1
      [] level = "warn"  -> 2
      [] level = "error" -> 3

\* One call of logx.Info / WarnErr / ErrorErr: the record is written when its
\* level reaches the logger's threshold.
Emit(log, level, msg, n) ==
    IF LevelRank(level) >= LevelRank(Threshold)
    THEN Append(log, [level |-> level, msg |-> msg, attempt |-> n])
    ELSE log

\* -------------------------------------------------- example 02: the driver

VARIABLES
    pc,              \* where RetryWithBackoff stands: loop, op, wait, done
    maxRetries,      \* parameter
    initialDelay,    \* parameter (ms)
    attempt,         \* the loop variable
    delay,           \* the current delay (ms)
    lastErr,         \* the last error the operation returned
    ctxDone,         \* whether the driver's own context has been cancelled
    ret,             \* the value returned (meaningful when pc = "done")
    invoked,         \* the attempt numbers the operation was invoked with
    results,         \* what each invocation returned
    waits,           \* the durations of the completed backoff waits (ms)
    logs,            \* the log records written
    cancelRequested, \* whether the caller has asked for cancellation
    err,             \* error algebra: the error under construction
    prev,            \* error algebra: the error before the last helper call
    lastOp,          \* error algebra: the last helper called
    lastArg,         \* error algebra: the domain the last helper was given
    depth,           \* error algebra: helper calls so far
    reported,        \* main: whether the driver's result has been handled
    failureCount,    \* main: the field of the ExchangeAPI that main created
    users,           \* http: UserService.users, a map from ID to user
    hpc,             \* http: where the goroutine of each request stands
    body,            \* http: the name and email a POST request carries
    newID,           \* http: the local newID of a CreateUser call
    resp,            \* http: the response written for each request
    crashed,         \* http: the runtime has ended the process
    logger,          \* logx: the logger held by the atomic.Value
    nextId,          \* logx: the next logger instance slog.New creates
    lpc,             \* logx: where each goroutine stands in SetLevel / a log call
    local,           \* logx: the logger a goroutine has built or loaded
    lname,           \* logx: the level name a goroutine gave to SetLevel
    floor,           \* logx: how many stores had returned when a goroutine loaded
    stores,          \* logx: the loggers stored so far, in the order of the stores
    returned,        \* logx: the latest store whose SetLevel call has returned
    apc,             \* logx: where a call of Debug/Info/Warn/Error stands
    logFn,           \* logx: which of Debug/Info/Warn/Error is called
    kv,              \* logx: the variadic arguments of the call
    attrs,           \* logx: what argsToAttrs returned
    out,             \* logx: the records the call wrote
    pmode,           \* panic: "defer" (PanicHandler deferred in the caller's
                     \*   goroutine) or "safego" (SafeGo starts a goroutine)
    component,       \* panic: the name given to PanicHandler / SafeGo
    gpc,             \* panic: where the goroutine that runs fn stands
    cpc,             \* panic: where the goroutine that called SafeGo stands
    payload,         \* panic: the value of the panic in flight, "" if none
    fnPayload,       \* panic: the value fn panicked with, "" if it did not
    recovered,       \* panic: what recover() returned in PanicHandler
    raised,          \* panic: the value PanicHandler raised again, "" if none
    plogs,           \* panic: the log records written
    harnessSaw       \* panic: what the caller's deferred recover() returned

retryVars == <<pc, maxRetries, initialDelay, attempt, delay, lastErr, ctxDone,
               ret, invoked, results, waits, logs, cancelRequested>>

errVars == <<err, prev, lastOp, lastArg, depth>>

mainVars == <<reported, failureCount>>

httpVars == <<users, hpc, body, newID, resp, crashed>>

logVars == <<logger, nextId, lpc, local, lname, floor, stores, returned,
             apc, logFn, kv, attrs, out>>

panicVars == <<pmode, component, gpc, cpc, payload, fnPayload, recovered, raised,
               plogs, harnessSaw>>

\* What the driver leaves alone, and what the helpers leave alone.
nonRetryVars == <<errVars, httpVars, mainVars, logVars, panicVars>>

nonErrVars == <<retryVars, mainVars, httpVars, logVars, panicVars>>

vars == <<retryVars, errVars, httpVars, mainVars, logVars, panicVars>>

Second == 1000

\* The ceiling of the delay: 5*time.Second.
MaxDelay == 5 * Second

\* Go's integer division truncates towards zero.
GoDiv(a, b) == IF a >= 0 THEN a \div b ELSE -((-a) \div b)

JitteredTenth(d) == d + GoDiv(d, 10)

\* d := delay + time.Duration(int64(delay)/5)
Jittered(d) == d + GoDiv(d, 5)

NextDelayUncapped(d) == d * 2

NextDelayCarriesJitter(d) ==
    IF d * 2 + GoDiv(d, 5) > MaxDelay THEN MaxDelay ELSE d * 2 + GoDiv(d, 5)

\* delay *= 2; if delay > 5*time.Second { delay = 5*time.Second }
NextDelay(d) == IF d * 2 > MaxDelay THEN MaxDelay ELSE d * 2

LoopCondUpToTwice(a, m) == a <= 2 * m

LoopCondOffByOne(a, m) == a <= m + 1

\* The for loop's condition.
LoopCond(a, m) == a <= m

AttemptsRemainInclusive(a, m) == a <= m

\* Whether a temporary failure is retried: if attempt < maxRetries.
AttemptsRemain(a, m) == a < m

IsRetryFromFirst(a) == a >= 1

\* Whether a success is logged: if attempt > 1.
IsRetry(a) == a > 1

AbortResultWrapped(e) == Wrapf(e, "operation failed", 0)

\* What the driver returns for a failure it does not retry.
AbortResult(e) == e

ExhaustedResultLoopVar(e, m) ==
    Wrapf(e, "operation failed after %d attempts", m + 1)

ExhaustedResultErrorf(e, m) ==
    <<L("prefix", "operation failed after %d attempts", m)>> \o e

\* What the driver returns after the loop.
ExhaustedResult(e, m) == Wrapf(e, "operation failed after %d attempts", m)

\* ctx.Err() of a cancelled context.
Canceled == <<L("leaf", "context canceled", 0)>>

\* The errors an operation may return: the temporary failure of SavePrice and
\* the retriable and the permanent failure of FetchPrice, each as UpdatePrice
\* wraps it; an error with no mark; an error with both marks.
SavePriceErr ==
    WrapWithStack(
        WithHint(WithDomain(MarkTemporary(New("connection pool exhausted")),
                            "adapters"), "retry after a short delay"),
        "failed to save price to database")

TemporaryErrs ==
    { WrapWithDomain(SavePriceErr, "failed to persist price", "usecase"),
      WrapWithDomain(NewExchangeError("NETWORK_ERROR", TRUE),
                     "failed to update price", "usecase"),
      MarkPermanent(MarkTemporary(New("both marks"))) }

PermanentErrs ==
    { WrapWithDomain(NewExchangeError("INVALID_SYMBOL", FALSE),
                     "failed to update price", "usecase") }

UnmarkedErrs == { New("unexpected failure") }

OpErrors == TemporaryErrs \cup PermanentErrs \cup UnmarkedErrs

InitialDelays == {-100, 0, 5, 100, 500, 3000, 5000, 10000}

MaxRetriesChoices == {-1} \cup (0..MaxAttemptsBound)

\* The state at the entry of RetryWithBackoff, after its declarations.
RetryInit ==
    /\ maxRetries \in MaxRetriesChoices
    /\ initialDelay \in InitialDelays
    /\ pc = "loop"
    /\ attempt = 1
    /\ delay = initialDelay
    /\ lastErr = Nil
    /\ ctxDone = FALSE
    /\ ret = Nil
    /\ invoked = <<>>
    /\ results = <<>>
    /\ waits = <<>>
    /\ logs = <<>>
    /\ cancelRequested = FALSE

ErrIdle ==
    /\ err = Nil
    /\ prev = Nil
    /\ lastOp = "none"
    /\ lastArg = ""
    /\ depth = 0

MainIdle == reported = FALSE /\ failureCount = 0

\* The requests the server handles, each in a goroutine of its own.
Requests == {"r1", "r2", "r3"}

\* No response yet.
NoResponse == [kind |-> "", from |-> "", status |-> 0, err |-> Nil, id |-> 0]

\* No body read yet.
NoBody == [name |-> "", email |-> ""]

\* NewUserService: the users 1, 2 and 3.
InitialUsers == [i \in {1, 2, 3} |-> <<"Alice", "Bob", "Charlie">>[i]]

\* The server has been created and no request has arrived.
HttpIdle ==
    /\ users = InitialUsers
    /\ hpc = [r \in Requests |-> "idle"]
    /\ body = [r \in Requests |-> NoBody]
    /\ newID = [r \in Requests |-> 0]
    /\ resp = [r \in Requests |-> NoResponse]
    /\ crashed = FALSE

Levels == {"debug", "info", "warn", "error"}

\* A logger: its threshold and which instance it is (0: the one of init()).
Logger(level, id) == [level |-> level, id |-> id]

\* init(): a logger of threshold info is stored before main runs.
InitLogger == Logger("info", 0)

\* The goroutines that call into logx concurrently.
Procs == {"g1", "g2"}

\* No logger (a goroutine holds none; an atomic.Value nothing was stored in).
NoLogger == Logger("", -1)

\* What a store leaves behind: the instance, its threshold, the name asked for.
StoreRec(l, name) == [id |-> l.id, level |-> l.level, name |-> name]

\* No goroutine is inside SetLevel or a log call; only init() has stored.
SetLevelIdle ==
    /\ nextId = 1
    /\ lpc = [p \in Procs |-> "idle"]
    /\ local = [p \in Procs |-> NoLogger]
    /\ lname = [p \in Procs |-> ""]
    /\ floor = [p \in Procs |-> 0]
    /\ stores = <<StoreRec(InitLogger, "init")>>
    /\ returned = 1

\* No call of Debug/Info/Warn/Error is under way.
ArgsIdle ==
    /\ apc = "idle"
    /\ logFn = "info"
    /\ kv = <<>>
    /\ attrs = <<>>
    /\ out = <<>>

LogIdle == logger = InitLogger /\ SetLevelIdle /\ ArgsIdle

PanicIdle ==
    /\ pmode = "defer"
    /\ component = ""
    /\ gpc = "idle"
    /\ cpc = "idle"
    /\ payload = ""
    /\ fnPayload = ""
    /\ recovered = ""
    /\ raised = ""
    /\ plogs = <<>>
    /\ harnessSaw = ""

Init == RetryInit /\ ErrIdle /\ MainIdle /\ HttpIdle /\ LogIdle /\ PanicIdle

\* return: the deferred cancel() runs.
Return(value) ==
    /\ ret' = value
    /\ pc' = "done"
    /\ ctxDone' = TRUE

\* The loop condition holds: err := operation(ctx) is called.
Invoke ==
    /\ pc = "loop"
    /\ LoopCond(attempt, maxRetries)
    /\ pc' = "op"
    /\ invoked' = Append(invoked, attempt)
    /\ UNCHANGED <<maxRetries, initialDelay, attempt, delay, lastErr, ctxDone,
                   ret, results, waits, logs, cancelRequested>>
    /\ UNCHANGED nonRetryVars

\* What the driver does with the value e that the operation returned:
\* return nil, return e when it is not temporary, else wait if attempts
\* remain, else log and take the loop's post statement.
HandleResult(e) ==
    /\ results' = Append(results, e)
    /\ IF e = Nil
       THEN /\ logs' = IF IsRetry(attempt)
                       THEN Emit(logs, "info", "Operation succeeded after retry",
                                 attempt)
                       ELSE logs
            /\ Return(Nil)
            /\ UNCHANGED <<attempt, lastErr>>
       ELSE /\ lastErr' = e
            /\ IF ~IsTemporary(e)
               THEN /\ logs' = Emit(logs, "error",
                                    "Operation failed with permanent error",
                                    attempt)
                    /\ Return(AbortResult(e))
                    /\ UNCHANGED attempt
               ELSE IF AttemptsRemain(attempt, maxRetries)
               THEN /\ logs' = Emit(logs, "warn",
                                    "Operation failed with temporary error, retrying",
                                    attempt)
                    /\ pc' = "wait"
                    /\ UNCHANGED <<attempt, ctxDone, ret>>
               ELSE /\ logs' = Emit(logs, "error",
                                    "Operation failed after max retries", attempt)
                    /\ pc' = "loop"
                    /\ attempt' = attempt + 1
                    /\ UNCHANGED <<ctxDone, ret>>
    /\ UNCHANGED <<maxRetries, initialDelay, delay, invoked, waits,
                   cancelRequested>>

\* The operation returns nil.
OpSucceeds ==
    /\ pc = "op"
    /\ HandleResult(Nil)
    /\ UNCHANGED nonRetryVars

\* The operation returns an error that is not temporary.
OpFailsPermanent ==
    /\ pc = "op"
    /\ \E e \in OpErrors :
        /\ ~IsTemporary(e)
        /\ HandleResult(e)
    /\ UNCHANGED nonRetryVars

\* The operation returns a temporary error.
OpFailsTemporary ==
    /\ pc = "op"
    /\ \E e \in OpErrors :
        /\ IsTemporary(e)
        /\ HandleResult(e)
    /\ UNCHANGED nonRetryVars

\* The select: the context is done, or the timer of the jittered delay fires;
\* then the delay is doubled and capped and the loop's post statement runs.
BackoffWait ==
    /\ pc = "wait"
    /\ IF ctxDone
       THEN /\ Return(Canceled)
            /\ UNCHANGED <<attempt, delay, waits>>
       ELSE /\ waits' = Append(waits, Jittered(delay))
            /\ delay' = NextDelay(delay)
            /\ attempt' = attempt + 1
            /\ pc' = "loop"
            /\ UNCHANGED <<ctxDone, ret>>
    /\ UNCHANGED <<maxRetries, initialDelay, lastErr, invoked, results, logs,
                   cancelRequested>>
    /\ UNCHANGED nonRetryVars

\* The loop condition fails: the last error is wrapped and returned.
Exhausted ==
    /\ pc = "loop"
    /\ ~LoopCond(attempt, maxRetries)
    /\ Return(ExhaustedResult(lastErr, maxRetries))
    /\ UNCHANGED <<maxRetries, initialDelay, attempt, delay, lastErr, invoked,
                   results, waits, logs, cancelRequested>>
    /\ UNCHANGED nonRetryVars

\* The caller of RetryWithBackoff wants the run cancelled.  The driver's
\* context is derived from context.Background() inside the function and its
\* cancel function is only deferred, so the request reaches nothing.
CallerCancels ==
    /\ pc # "done"
    /\ ~cancelRequested
    /\ cancelRequested' = TRUE
    /\ UNCHANGED <<pc, maxRetries, initialDelay, attempt, delay, lastErr, ctxDone,
                   ret, invoked, results, waits, logs>>
    /\ UNCHANGED nonRetryVars

\* main, after RetryWithBackoff has returned: if err != nil it logs the
\* final result with logx.ErrorErr, else it prints.
MainReports ==
    /\ pc = "done"
    /\ ~reported
    /\ reported' = TRUE
    /\ logs' = IF ret # Nil
               THEN Emit(logs, "error", "Final result: failed", 0)
               ELSE logs
    /\ UNCHANGED <<pc, maxRetries, initialDelay, attempt, delay, lastErr, ctxDone,
                   ret, invoked, results, waits, cancelRequested>>
    /\ UNCHANGED <<failureCount, errVars, httpVars, logVars, panicVars>>

Next ==
    \/ Invoke
    \/ OpSucceeds
    \/ OpFailsPermanent
    \/ OpFailsTemporary
    \/ BackoffWait
    \/ Exhausted
    \/ CallerCancels
    \/ MainReports

Spec == Init /\ [][Next]_vars

\* One step of the driver itself.
DriverStep ==
    \/ Invoke
    \/ OpSucceeds
    \/ OpFailsPermanent
    \/ OpFailsTemporary
    \/ BackoffWait
    \/ Exhausted

\* The driver under a fair scheduler: each call of the operation returns, the
\* timer of a wait fires, and the goroutine keeps running.
SpecLive == Init /\ [][Next]_vars /\ WF_vars(DriverStep)

\* ---------------------------------- example 02: main and its UpdatePrice

SavePriceSucceeds == Nil

\* DatabaseService.SavePrice: it fails, temporarily, every time.
SavePrice == SavePriceErr

\* ExchangeAPI.FetchPrice, by the value of failureCount after its increment;
\* Nil stands for the price returned with a nil error.
FetchPrice(n) ==
    CASE n = 1 -> NewExchangeError("NETWORK_ERROR", TRUE)
      [] n = 2 -> NewExchangeError("RATE_LIMIT", TRUE)
      [] n = 3 -> Nil
      [] OTHER -> NewExchangeError("INVALID_SYMBOL", FALSE)

\* PriceService.UpdatePrice: the error of FetchPrice wrapped, else the error
\* of SavePrice wrapped, else nil.
UpdatePrice(n) ==
    IF FetchPrice(n) # Nil
    THEN WrapWithDomain(FetchPrice(n), "failed to update price", "usecase")
    ELSE IF SavePrice # Nil
    THEN WrapWithDomain(SavePrice, "failed to persist price", "usecase")
    ELSE Nil

\* How often FetchPrice was called on main's ExchangeAPI before a run: never
\* before Example 1, and Example 2 goes on with the same object.
PriorCalls == 0..4

\* main calls RetryWithBackoff with an operation that calls UpdatePrice.
DemoInit ==
    /\ RetryInit
    /\ ErrIdle
    /\ reported = FALSE
    /\ failureCount \in PriorCalls
    /\ HttpIdle
    /\ LogIdle
    /\ PanicIdle

\* The operation runs: UpdatePrice calls FetchPrice, which counts the call,
\* and the driver handles what UpdatePrice returns.
UpdatePriceReturns ==
    /\ pc = "op"
    /\ failureCount' = failureCount + 1
    /\ HandleResult(UpdatePrice(failureCount + 1))
    /\ UNCHANGED <<reported, errVars, httpVars, logVars, panicVars>>

DemoNext ==
    \/ Invoke
    \/ UpdatePriceReturns
    \/ BackoffWait
    \/ Exhausted
    \/ MainReports

SpecDemo == DemoInit /\ [][DemoNext]_vars

\* ------------------------------------------- the helpers of package domain

Domains == {"usecase", "adapters", "exchange"}

\* The errors the helpers are first applied to: crdberrors.New("test error")
\* and a bare *ExchangeError.
BaseErrors == { New("test error"), <<L("exchange", "API_ERROR", 0)>> }

RetryIdle ==
    /\ pc = "idle"
    /\ maxRetries = 0
    /\ initialDelay = 0
    /\ attempt = 1
    /\ delay = 0
    /\ lastErr = Nil
    /\ ctxDone = FALSE
    /\ ret = Nil
    /\ invoked = <<>>
    /\ results = <<>>
    /\ waits = <<>>
    /\ logs = <<>>
    /\ cancelRequested = FALSE

ErrInit ==
    /\ RetryIdle
    /\ MainIdle
    /\ HttpIdle
    /\ LogIdle
    /\ PanicIdle
    /\ err \in BaseErrors
    /\ prev = Nil
    /\ lastOp = "none"
    /\ lastArg = ""
    /\ depth = 0

\* One helper call on the error built so far.
Apply(op, result) ==
    /\ depth < MaxDepth
    /\ err' = result
    /\ prev' = err
    /\ lastOp' = op
    /\ depth' = depth + 1
    /\ UNCHANGED nonErrVars

DoMarkTemporary ==
    Apply("MarkTemporary", MarkTemporary(err)) /\ lastArg' = ""

DoMarkPermanent ==
    Apply("MarkPermanent", MarkPermanent(err)) /\ lastArg' = ""

DoWrapWithDomain ==
    \E d \in Domains :
        Apply("WrapWithDomain", WrapWithDomain(err, "context", d)) /\ lastArg' = d

DoWrapWithStack ==
    Apply("WrapWithStack", WrapWithStack(err, "boundary")) /\ lastArg' = ""

DoWithDomain ==
    \E d \in Domains : Apply("WithDomain", WithDomain(err, d)) /\ lastArg' = d

DoWithHint == Apply("WithHint", WithHint(err, "hint")) /\ lastArg' = ""

DoWithDetail == Apply("WithDetail", WithDetail(err, "detail")) /\ lastArg' = ""

ErrNext ==
    \/ DoMarkTemporary
    \/ DoMarkPermanent
    \/ DoWrapWithDomain
    \/ DoWrapWithStack
    \/ DoWithDomain
    \/ DoWithHint
    \/ DoWithDetail

SpecErr == ErrInit /\ [][ErrNext]_vars

\* ------------------------------------------- logx: PanicHandler and SafeGo

\* Whether a record of this level passes a logger's threshold.
Enabled(level, threshold) == LevelRank(level) >= LevelRank(threshold)

Components == {"worker", "main", "task-worker-2"}

\* The values fn panics with (a panic value is not nil).
Payloads == {"boom", "critical error in main", "explicit panic triggered",
             "task 2 failed unexpectedly"}

PanicModes == {"defer", "safego"}

\* The function is about to run; SetLevel may have been called before.
PanicInit ==
    /\ RetryIdle
    /\ ErrIdle
    /\ MainIdle
    /\ HttpIdle
    /\ \E l \in Levels : logger = Logger(l, 0)
    /\ SetLevelIdle
    /\ ArgsIdle
    /\ pmode \in PanicModes
    /\ component \in Components
    /\ gpc = "start"
    /\ cpc = "running"
    /\ payload = ""
    /\ fnPayload = ""
    /\ recovered = ""
    /\ raised = ""
    /\ plogs = <<>>
    /\ harnessSaw = ""

RepanicValueOfError(r) == "panic recovered"

\* panic(r): what PanicHandler raises after logging.
RepanicValue(r) == r

HarnessCanRecoverAlways(mode) == TRUE

\* A deferred recover() of the caller stops the panic only when the panic
\* unwinds the caller's own goroutine: SafeGo runs fn in a goroutine of its
\* own (go func), a function that defers PanicHandler itself does not.
HarnessCanRecover(mode) == mode = "defer"

\* ErrorErr(fmt.Sprintf("[%s] Panic recovered", component), err), err made
\* from the recovered value.
PanicRecord(c, r) == [level |-> "error", component |-> c, panic |-> r]

\* defer PanicHandler(name); fn(): fn starts (in SafeGo, in the new goroutine).
StartFn ==
    /\ gpc = "start"
    /\ gpc' = "fn"
    /\ UNCHANGED <<pmode, component, cpc, payload, fnPayload, recovered, raised,
                   plogs, harnessSaw>>
    /\ UNCHANGED <<retryVars, errVars, httpVars, mainVars, logVars>>

\* fn panics with r: the deferred PanicHandler will run.
FnPanics ==
    /\ gpc = "fn"
    /\ \E r \in Payloads :
        /\ payload' = r
        /\ fnPayload' = r
    /\ gpc' = "deferred"
    /\ UNCHANGED <<pmode, component, cpc, recovered, raised, plogs, harnessSaw>>
    /\ UNCHANGED <<retryVars, errVars, httpVars, mainVars, logVars>>

\* fn returns: the deferred PanicHandler will run.
FnReturns ==
    /\ gpc = "fn"
    /\ gpc' = "deferred"
    /\ UNCHANGED <<pmode, component, cpc, payload, fnPayload, recovered, raised,
                   plogs, harnessSaw>>
    /\ UNCHANGED <<retryVars, errVars, httpVars, mainVars, logVars>>

\* PanicHandler: r := recover().  With no panic it returns nil and the
\* handler does nothing; with one, the panic stops and r is its value.
HandlerRecovers ==
    /\ gpc = "deferred"
    /\ recovered' = payload
    /\ payload' = ""
    /\ gpc' = IF payload # "" THEN "handling" ELSE "returned"
    /\ UNCHANGED <<pmode, component, cpc, fnPayload, raised, plogs, harnessSaw>>
    /\ UNCHANGED <<retryVars, errVars, httpVars, mainVars, logVars>>

\* PanicHandler: ErrorErr("[component] Panic recovered", err).
HandlerLogs ==
    /\ gpc = "handling"
    /\ plogs' = IF Enabled("error", logger.level)
                THEN Append(plogs, PanicRecord(component, recovered))
                ELSE plogs
    /\ gpc' = "logged"
    /\ UNCHANGED <<pmode, component, cpc, payload, fnPayload, recovered, raised,
                   harnessSaw>>
    /\ UNCHANGED <<retryVars, errVars, httpVars, mainVars, logVars>>

\* PanicHandler: panic(r).
HandlerRepanics ==
    /\ gpc = "logged"
    /\ payload' = RepanicValue(recovered)
    /\ raised' = RepanicValue(recovered)
    /\ gpc' = "unwinding"
    /\ UNCHANGED <<pmode, component, cpc, fnPayload, recovered, plogs, harnessSaw>>
    /\ UNCHANGED <<retryVars, errVars, httpVars, mainVars, logVars>>

\* The panic leaves the function.  In the caller's goroutine the caller's
\* deferred recover() gets it; in a goroutine of its own nothing is left to
\* recover it and the runtime ends the process.
Unwind ==
    /\ gpc = "unwinding"
    /\ IF HarnessCanRecover(pmode)
       THEN /\ harnessSaw' = payload
            /\ payload' = ""
            /\ gpc' = "caught"
            /\ cpc' = "returned"
       ELSE /\ gpc' = "crashed"
            /\ cpc' = "crashed"
            /\ UNCHANGED <<payload, harnessSaw>>
    /\ UNCHANGED <<pmode, component, fnPayload, recovered, raised, plogs>>
    /\ UNCHANGED <<retryVars, errVars, httpVars, mainVars, logVars>>

\* The goroutine that called SafeGo goes on and returns; its deferred
\* recover() returns nil.
CallerReturns ==
    /\ pmode = "safego"
    /\ gpc # "start"
    /\ cpc = "running"
    /\ cpc' = "returned"
    /\ UNCHANGED <<pmode, component, gpc, payload, fnPayload, recovered, raised,
                   plogs, harnessSaw>>
    /\ UNCHANGED <<retryVars, errVars, httpVars, mainVars, logVars>>

PanicNext ==
    \/ StartFn
    \/ FnPanics
    \/ FnReturns
    \/ HandlerRecovers
    \/ HandlerLogs
    \/ HandlerRepanics
    \/ Unwind
    \/ CallerReturns

SpecPanic == PanicInit /\ [][PanicNext]_vars

\* ------------------------------------------- logx: SetLevel and the logger

\* How many SetLevel calls a run makes.
MaxSetLevels == 2

\* The names SetLevel is called with.
LevelNames == Levels \cup {"", "DEBUG", "Warn", "trace"}

ParseLevelFoldsCase(name) ==
    CASE name \in {"debug", "DEBUG"} -> "debug"
      [] name = "info"               -> "info"
      [] name \in {"warn", "Warn"}   -> "warn"
      [] name = "error"              -> "error"
      [] OTHER                       -> "info"

\* SetLevel's switch: the four exact names, anything else is info.
ParseLevel(name) ==
    CASE name = "debug" -> "debug"
      [] name = "info"  -> "info"
      [] name = "warn"  -> "warn"
      [] name = "error" -> "error"
      [] OTHER          -> "info"

LoadCachedAtInit(cell) == InitLogger

\* get(): logger.Load() returns what the last Store put into the cell.
Load(cell) == cell

\* The place of a logger instance in the order of the stores.
Pos(id) == CHOOSE i \in 1..Len(stores) : stores[i].id = id

Max(a, b) == IF a >= b THEN a ELSE b

\* main is running: init() has stored its logger.
SetLevelInit ==
    /\ RetryIdle
    /\ ErrIdle
    /\ MainIdle
    /\ HttpIdle
    /\ PanicIdle
    /\ LogIdle

\* SetLevel, up to the Store: the level is chosen and a logger is built that
\* only this goroutine knows.
SetLevelBuild ==
    \E p \in Procs, name \in LevelNames :
        /\ lpc[p] = "idle"
        /\ nextId <= MaxSetLevels
        /\ local' = [local EXCEPT ![p] = Logger(ParseLevel(name), nextId)]
        /\ lname' = [lname EXCEPT ![p] = name]
        /\ nextId' = nextId + 1
        /\ lpc' = [lpc EXCEPT ![p] = "built"]
        /\ UNCHANGED <<logger, floor, stores, returned, apc, logFn, kv, attrs, out>>
        /\ UNCHANGED <<retryVars, errVars, httpVars, mainVars, panicVars>>

\* logger.Store(slog.New(handler)): one atomic step.
SetLevelStore ==
    \E p \in Procs :
        /\ lpc[p] = "built"
        /\ logger' = local[p]
        /\ stores' = Append(stores, StoreRec(local[p], lname[p]))
        /\ lpc' = [lpc EXCEPT ![p] = "stored"]
        /\ UNCHANGED <<nextId, local, lname, floor, returned, apc, logFn, kv, attrs, out>>
        /\ UNCHANGED <<retryVars, errVars, httpVars, mainVars, panicVars>>

\* SetLevel returns to its caller.
SetLevelReturn ==
    \E p \in Procs :
        /\ lpc[p] = "stored"
        /\ returned' = Max(returned, Pos(local[p].id))
        /\ lpc' = [lpc EXCEPT ![p] = "idle"]
        /\ local' = [local EXCEPT ![p] = NoLogger]
        /\ lname' = [lname EXCEPT ![p] = ""]
        /\ UNCHANGED <<logger, nextId, floor, stores, apc, logFn, kv, attrs, out>>
        /\ UNCHANGED <<retryVars, errVars, httpVars, mainVars, panicVars>>

\* A log call begins: get() loads the logger.
LogLoad ==
    \E p \in Procs :
        /\ lpc[p] = "idle"
        /\ local' = [local EXCEPT ![p] = Load(logger)]
        /\ floor' = [floor EXCEPT ![p] = returned]
        /\ lpc' = [lpc EXCEPT ![p] = "loaded"]
        /\ UNCHANGED <<logger, nextId, lname, stores, returned, apc, logFn, kv, attrs, out>>
        /\ UNCHANGED <<retryVars, errVars, httpVars, mainVars, panicVars>>

\* The log call writes through the logger it loaded and returns.
LogWrite ==
    \E p \in Procs :
        /\ lpc[p] = "loaded"
        /\ lpc' = [lpc EXCEPT ![p] = "idle"]
        /\ local' = [local EXCEPT ![p] = NoLogger]
        /\ floor' = [floor EXCEPT ![p] = 0]
        /\ UNCHANGED <<logger, nextId, lname, stores, returned, apc, logFn, kv, attrs, out>>
        /\ UNCHANGED <<retryVars, errVars, httpVars, mainVars, panicVars>>

SetLevelNext ==
    \/ SetLevelBuild
    \/ SetLevelStore
    \/ SetLevelReturn
    \/ LogLoad
    \/ LogWrite

SpecLog == SetLevelInit /\ [][SetLevelNext]_vars

\* ------------------------------------ logx: Debug / Info / Warn / Error

\* The longest argument list of a log call.
MaxArgs == 3

\* A Go value given as a variadic argument: its dynamic type and its text
\* (for a string the string itself, otherwise what fmt.Sprint prints).
Value(t, s) == [t |-> t, s |-> s]

ArgValues == {Value("string", "attempt"), Value("string", "user-1"),
              Value("int", "42"), Value("bool", "true")}

ArgLists == UNION {[1..n -> ArgValues] : n \in 0..MaxArgs}

\* fmt.Sprint(key): the default string form.
Sprint(v) == v.s

\* key.(string), and fmt.Sprint(key) when the key is not a string.
KeyOf(key) == IF key.t = "string" THEN key.s ELSE Sprint(key)

\* slog.Any(k, val)
SlogAny(k, val) == [key |-> k, value |-> val]

argsToAttrsDropsFirst(args) ==
    LET even == IF Len(args) % 2 # 0 THEN Tail(args) ELSE args
    IN  [i \in 1..(Len(even) \div 2) |-> SlogAny(KeyOf(even[2 * i - 1]), even[2 * i])]

\* argsToAttrs: an odd list loses its last element, then one attribute per
\* consecutive pair.
argsToAttrs(args) ==
    LET even == IF Len(args) % 2 # 0 THEN SubSeq(args, 1, Len(args) - 1)
                                     ELSE args
    IN  [i \in 1..(Len(even) \div 2) |-> SlogAny(KeyOf(even[2 * i - 1]), even[2 * i])]

\* attrsToAny: the same attributes, as a []any.
attrsToAny(as) == [i \in 1..Len(as) |-> as[i]]

\* A call of Debug, Info, Warn or Error with some arguments is about to run.
ArgsInit ==
    /\ RetryIdle
    /\ ErrIdle
    /\ MainIdle
    /\ HttpIdle
    /\ PanicIdle
    /\ logger = InitLogger
    /\ SetLevelIdle
    /\ apc = "call"
    /\ logFn \in Levels
    /\ kv \in ArgLists
    /\ attrs = <<>>
    /\ out = <<>>

\* get().Info(msg, attrsToAny(argsToAttrs(args...))...), and the like.
LogCall ==
    /\ apc = "call"
    /\ attrs' = argsToAttrs(kv)
    /\ out' = IF Enabled(logFn, Load(logger).level)
              THEN <<[level |-> logFn, attrs |-> attrsToAny(argsToAttrs(kv))]>>
              ELSE <<>>
    /\ apc' = "done"
    /\ UNCHANGED <<logger, nextId, lpc, local, lname, floor, stores, returned,
                   logFn, kv>>
    /\ UNCHANGED <<retryVars, errVars, httpVars, mainVars, panicVars>>

ArgsNext == LogCall

SpecArgs == ArgsInit /\ [][ArgsNext]_vars

\* ------------------------------------------- example 04: the HTTP server

StatusOK == 200

StatusCreated == 201

StatusBadRequest == 400

StatusNotFound == 404

StatusInternalServerError == 500

\* The last segment of the path of a GET /users/{id}.
PathIDs == {"1", "4", "999", "abc"}

\* strconv.Atoi on those segments: the number, or an error.
Atoi(str) ==
    CASE str = "1"   -> [ok |-> TRUE, n |-> 1]
      [] str = "4"   -> [ok |-> TRUE, n |-> 4]
      [] str = "999" -> [ok |-> TRUE, n |-> 999]
      [] OTHER       -> [ok |-> FALSE, n |-> 0]

\* The bodies of a POST /users: one that does not decode, and objects with
\* a name and an email, either of which may be empty.
Bodies ==
    {[valid |-> FALSE, name |-> "", email |-> ""]} \cup
    {[valid |-> TRUE, name |-> n, email |-> e] :
        n \in {"", "David", "Erin"}, e \in {"", "d@example.com"}}

\* GetUser when time.Now().Unix()%10 == 0.
TimeoutErr ==
    WrapWithStack(
        WithHint(WithDomain(MarkTemporary(New("database connection timeout")),
                            "adapters"), "Retry the request"),
        "failed to fetch user from database")

\* GetUser when the map has no such ID.
NotFoundErr(id) ==
    MarkPermanent(WithDomain(<<L("stack", "", 0),
                               L("leaf", "user with id %d not found", id)>>,
                             "adapters"))

\* UserService.GetUser: the error it returns, Nil when it returns the user.
GetUser(id, timeout, us) ==
    IF timeout THEN TimeoutErr
    ELSE IF id \notin DOMAIN us THEN NotFoundErr(id)
    ELSE Nil

\* CreateUser's validation: the error it returns, Nil when the input passes.
Validate(name, email) ==
    IF name = ""
    THEN WithHint(MarkPermanent(WithDomain(New("name is required"), "usecase")),
                  "Provide a valid name")
    ELSE IF email = ""
    THEN WithHint(MarkPermanent(WithDomain(New("email is required"), "usecase")),
                  "Provide a valid email address")
    ELSE Nil

\* The errors the handlers make themselves, answered with 400.
InvalidIDErr == MarkPermanent(Wrap(New("strconv.Atoi: invalid syntax"),
                                   "invalid user ID"))

InvalidJSONErr == MarkPermanent(Wrap(New("json: cannot decode"),
                                     "invalid JSON request"))

GetUserStatusAlwaysNotFound(e) == StatusNotFound

\* getUserHandler: the status for an error of GetUser.
GetUserStatus(e) ==
    IF IsPermanent(e) THEN StatusNotFound ELSE StatusInternalServerError

\* createUserHandler: the status for an error of CreateUser.
CreateUserStatus(e) ==
    IF IsPermanent(e) THEN StatusBadRequest ELSE StatusInternalServerError

Response(kind, from, status, e, id) ==
    [kind |-> kind, from |-> from, status |-> status, err |-> e, id |-> id]

\* The server is listening.
HttpInit ==
    /\ RetryIdle
    /\ ErrIdle
    /\ MainIdle
    /\ HttpIdle
    /\ LogIdle
    /\ PanicIdle

\* Request r is answered and its goroutine ends.
Respond(r, response) ==
    /\ resp' = [resp EXCEPT ![r] = response]
    /\ hpc' = [hpc EXCEPT ![r] = "done"]

\* GET /users/{id}: getUserHandler, with its call of GetUser.
HandleGetUser ==
    \E r \in Requests, str \in PathIDs, timeout \in BOOLEAN :
        /\ ~crashed
        /\ hpc[r] = "idle"
        /\ IF ~Atoi(str).ok
           THEN Respond(r, Response("get", "handler", StatusBadRequest,
                                    InvalidIDErr, 0))
           ELSE LET id == Atoi(str).n
                    e  == GetUser(id, timeout, users)
                IN  IF e # Nil
                    THEN Respond(r, Response("get", "service", GetUserStatus(e),
                                             e, 0))
                    ELSE Respond(r, Response("get", "service", StatusOK, Nil, id))
        /\ UNCHANGED <<users, body, newID, crashed>>
        /\ UNCHANGED <<retryVars, errVars, mainVars, logVars, panicVars>>

\* POST /users: createUserHandler up to CreateUser's newID := len(s.users) + 1.
BeginCreateUser ==
    \E r \in Requests, b \in Bodies :
        /\ ~crashed
        /\ hpc[r] = "idle"
        /\ IF ~b.valid
           THEN /\ Respond(r, Response("create", "handler", StatusBadRequest,
                                       InvalidJSONErr, 0))
                /\ UNCHANGED <<body, newID>>
           ELSE IF Validate(b.name, b.email) # Nil
           THEN /\ Respond(r, Response("create", "service",
                                       CreateUserStatus(Validate(b.name, b.email)),
                                       Validate(b.name, b.email), 0))
                /\ UNCHANGED <<body, newID>>
           ELSE /\ body' = [body EXCEPT ![r] = [name |-> b.name, email |-> b.email]]
                /\ newID' = [newID EXCEPT ![r] = Cardinality(DOMAIN users) + 1]
                /\ hpc' = [hpc EXCEPT ![r] = "store"]
                /\ UNCHANGED resp
        /\ UNCHANGED <<users, crashed>>
        /\ UNCHANGED <<retryVars, errVars, mainVars, logVars, panicVars>>

\* s.users[newID] = user, then the handler answers 201.
StoreUser ==
    \E r \in Requests :
        /\ ~crashed
        /\ hpc[r] = "store"
        /\ users' = [i \in DOMAIN users \cup {newID[r]} |->
                        IF i = newID[r] THEN body[r].name ELSE users[i]]
        /\ Respond(r, Response("create", "service", StatusCreated, Nil, newID[r]))
        /\ UNCHANGED <<body, newID, crashed>>
        /\ UNCHANGED <<retryVars, errVars, mainVars, logVars, panicVars>>

\* Two goroutines write the map with no lock between them: the runtime may
\* detect it and end the process (fatal error: concurrent map writes).
RuntimeDetectsRace ==
    /\ ~crashed
    /\ \E r, q \in Requests : r # q /\ hpc[r] = "store" /\ hpc[q] = "store"
    /\ crashed' = TRUE
    /\ UNCHANGED <<users, hpc, body, newID, resp>>
    /\ UNCHANGED <<retryVars, errVars, mainVars, logVars, panicVars>>

HttpNext ==
    \/ HandleGetUser
    \/ BeginCreateUser
    \/ StoreUser
    \/ RuntimeDetectsRace

SpecHttp == HttpInit /\ [][HttpNext]_vars

\* ------------------------------------------------------------------ claims

\* C1 (as stated): after MarkTemporary(e) the result is temporary and not
\* permanent, and after MarkPermanent(e) it is permanent and not temporary,
\* for every e, one that carries the opposite mark included.
C1_MarkExcludesOpposite ==
    /\ lastOp = "MarkTemporary" => IsTemporary(err) /\ ~IsPermanent(err)
    /\ lastOp = "MarkPermanent" => IsPermanent(err) /\ ~IsTemporary(err)

\* C1 (amended): MarkTemporary(e) is temporary, and it is permanent exactly
\* when e already was; MarkPermanent(e) is permanent, and it is temporary
\* exactly when e already was.
C1_MarkAddsAndKeeps ==
    /\ lastOp = "MarkTemporary" =>
           IsTemporary(err) /\ (IsPermanent(err) <=> IsPermanent(prev))
    /\ lastOp = "MarkPermanent" =>
           IsPermanent(err) /\ (IsTemporary(err) <=> IsTemporary(prev))

\* C1 witness: MarkTemporary was applied to an error that is permanent.
C1_Witness ==
    /\ lastOp = "MarkTemporary"
    /\ IsPermanent(prev)
    /\ IsTemporary(err)

\* ---- claims about RetryWithBackoff

NonTemporaryErrs == PermanentErrs \cup UnmarkedErrs

AllTemporary(rs) == \A i \in 1..Len(rs) : rs[i] \in TemporaryErrs

\* The wait of a round whose delay has reached the ceiling.
CappedWait == Jittered(MaxDelay)

\* C2: when the operation returns an error that is not temporary (marked
\* permanent, or not marked) on attempt k, the driver has stopped: k
\* invocations, k-1 waits (none after the failure), k within maxRetries, and
\* an error is returned.
C2_NonTemporaryStops ==
    \A k \in 1..Len(results) :
        results[k] \in NonTemporaryErrs =>
            /\ pc = "done"
            /\ Len(invoked) = k
            /\ Len(results) = k
            /\ Len(waits) = k - 1
            /\ k <= maxRetries
            /\ ret # Nil

\* C2 witness: an unmarked error on attempt 2 of 4 ended the run.
C2_Witness ==
    /\ pc = "done"
    /\ maxRetries = 4
    /\ Len(results) = 2
    /\ results[2] \in UnmarkedErrs
    /\ Len(waits) = 1
    /\ ret # Nil

\* C3: a permanent error on attempt 1 gives one invocation, no wait, and the
\* returned value is the very error the operation returned.
C3_PermanentFirstAttempt ==
    (Len(results) >= 1 /\ results[1] \in PermanentErrs) =>
        /\ pc = "done"
        /\ invoked = <<1>>
        /\ waits = <<>>
        /\ ret = results[1]

\* C3 witness: the run ended on a permanent error of attempt 1 with attempts
\* left.
C3_Witness ==
    /\ pc = "done"
    /\ maxRetries >= 2
    /\ Len(results) = 1
    /\ results[1] \in PermanentErrs
    /\ ret = results[1]

\* C4: when every attempt fails with a temporary error and the driver has
\* returned, the operation was invoked maxRetries times, maxRetries-1 waits
\* were made, and the result is the last error under a prefix that carries
\* the count maxRetries.
C4_ExhaustsAllAttempts ==
    (pc = "done" /\ results # <<>> /\ AllTemporary(results)) =>
        /\ Len(invoked) = maxRetries
        /\ Len(results) = maxRetries
        /\ Len(waits) = maxRetries - 1
        /\ ret # Nil
        /\ ret = <<L("stack", "", 0),
                   L("prefix", "operation failed after %d attempts", maxRetries)>>
                 \o results[maxRetries]

\* C4 witness: three temporary failures out of three attempts.
C4_Witness ==
    /\ pc = "done"
    /\ maxRetries = 3
    /\ Len(results) = 3
    /\ AllTemporary(results)
    /\ Len(waits) = 2

\* A run that failed temporarily N-1 times and then succeeded.
SucceededAfter(n) ==
    /\ pc = "done"
    /\ Len(results) = n
    /\ results[n] = Nil
    /\ AllTemporary(SubSeq(results, 1, n - 1))

\* C5 (as stated): such a run has N invocations and N-1 waits, and the waits
\* are strictly increasing until the ceiling and constant from then on, for
\* every initialDelay.
C5_WaitsIncreaseThenCap ==
    \A n \in 1..MaxAttemptsBound + 1 :
        SucceededAfter(n) =>
            /\ ret = Nil
            /\ Len(invoked) = n
            /\ Len(waits) = n - 1
            /\ \A i \in 1..Len(waits) - 1 :
                   \/ waits[i] < waits[i + 1]
                   \/ waits[i] = waits[i + 1] /\ waits[i] >= MaxDelay

\* C5 (amended): N invocations and N-1 waits for every initialDelay; for
\* 0 < initialDelay <= 5s the waits are strictly increasing until the delay
\* has reached the ceiling and equal to the capped wait (6s) from then on.
C5_WaitsIncreaseThenCapInRange ==
    \A n \in 1..MaxAttemptsBound + 1 :
        SucceededAfter(n) =>
            /\ ret = Nil
            /\ Len(invoked) = n
            /\ Len(waits) = n - 1
            /\ n <= maxRetries
            /\ (0 < initialDelay /\ initialDelay <= MaxDelay) =>
                   /\ \A i \in 1..Len(waits) : waits[i] <= CappedWait
                   /\ \A i \in 1..Len(waits) - 1 :
                          \/ waits[i] < waits[i + 1]
                          \/ waits[i] = CappedWait /\ waits[i + 1] = CappedWait

\* C5 witness: success on attempt 4 after waits that rose and then stayed at
\* the capped wait.
C5_Witness ==
    /\ SucceededAfter(4)
    /\ initialDelay = 3000
    /\ waits = <<3600, 6000, 6000>>

\* C6: success on attempt 1 gives a nil result, one invocation, no wait and
\* no log record.
C6_FirstAttemptSuccess ==
    (Len(results) >= 1 /\ results[1] = Nil) =>
        /\ pc = "done"
        /\ ret = Nil
        /\ invoked = <<1>>
        /\ waits = <<>>
        /\ logs = <<>>

\* C6 witness: the run ended with the success of attempt 1, attempts left.
C6_Witness ==
    /\ pc = "done"
    /\ maxRetries >= 2
    /\ results = <<Nil>>
    /\ ret = Nil

\* C7: once the caller has asked for cancellation during a backoff wait (one
\* of a positive duration), the driver's next step returns the cancellation
\* error and does not invoke the operation again.
C7_CancelDuringWaitReturns ==
    [][(pc = "wait" /\ cancelRequested /\ Jittered(delay) > 0) =>
           (pc' = "done" /\ ret' = Canceled /\ invoked' = invoked)]_vars

\* C8: the operation is invoked with attempt numbers 1, 2, 3, ... in this
\* order, each within 1..maxRetries, and never more than maxRetries times.
C8_AttemptsCountUp ==
    /\ \A i \in 1..Len(invoked) : invoked[i] = i /\ 1 <= i /\ i <= maxRetries
    /\ pc \in {"op", "wait"} => (1 <= attempt /\ attempt <= maxRetries)
    /\ pc \in {"op", "wait"} => invoked[Len(invoked)] = attempt
    /\ Len(invoked) = 0 \/ Len(invoked) <= maxRetries

\* C8 witness: the last of four attempts is being made.
C8_Witness ==
    /\ pc = "op"
    /\ maxRetries = 4
    /\ invoked = <<1, 2, 3, 4>>

\* C9: with maxRetries <= 0 the operation is never invoked, no wait is made,
\* and the driver returns nil.
C9_NoAttemptsReturnsNil ==
    maxRetries <= 0 =>
        /\ invoked = <<>>
        /\ waits = <<>>
        /\ pc \in {"loop", "done"}
        /\ pc = "done" => ret = Nil

\* C9 witness: a run with maxRetries <= 0 has returned nil.
C9_Witness ==
    /\ maxRetries <= 0
    /\ pc = "done"
    /\ ret = Nil
    /\ invoked = <<>>

\* C10: maxRetries = 3, initialDelay = 100ms, temporary failures on attempts
\* 1 and 2 and success on attempt 3: success, three invocations, waits of
\* 120ms and 240ms, and the last log record is the info record "Operation
\* succeeded after retry" with attempt = 3.
C10_Scenario ==
    (maxRetries = 3 /\ initialDelay = 100 /\ SucceededAfter(3)) =>
        /\ ret = Nil
        /\ invoked = <<1, 2, 3>>
        /\ waits = <<120, 240>>
        /\ logs # <<>>
        /\ logs[Len(logs)] = [level |-> "info",
                              msg |-> "Operation succeeded after retry",
                              attempt |-> 3]

\* C10 witness: the scenario has run to its end.
C10_Witness ==
    /\ maxRetries = 3
    /\ initialDelay = 100
    /\ SucceededAfter(3)
    /\ Len(logs) = 3

\* C11: a run that ended in failure (permanent abort or exhausted retries)
\* has exactly one error-level log record, also after main has handled the
\* returned error.
C11_OneErrorRecordPerFailure ==
    (pc = "done" /\ ret # Nil) =>
        Cardinality({i \in 1..Len(logs) : logs[i].level = "error"}) = 1

\* ---- claims about the helpers of package domain

\* Whether the chain holds a mark node made with the sentinel.
HasMarkOf(e, ref) == \E i \in 1..Len(e) : e[i] = L("mark", ref[2].v, 0)

\* C12: an error on which neither MarkTemporary nor MarkPermanent was called
\* is neither temporary nor permanent.
C12_UnmarkedIsNeither ==
    (~HasMarkOf(err, ErrTemporary) /\ ~HasMarkOf(err, ErrPermanent)) =>
        (~IsTemporary(err) /\ ~IsPermanent(err))

\* C12 witness: an error wrapped three times and never marked.
C12_Witness ==
    /\ depth = 3
    /\ lastOp = "WrapWithStack"
    /\ ~HasMarkOf(err, ErrTemporary)
    /\ ~HasMarkOf(err, ErrPermanent)
    /\ ~IsTemporary(err)
    /\ ~IsPermanent(err)

\* C18: after a domain is attached (WrapWithDomain, WithDomain) the domain
\* query returns the domain attached last, whatever domain the error had.
C18_LastDomainWins ==
    lastOp \in {"WrapWithDomain", "WithDomain"} => GetDomain(err) = lastArg

\* C18 witness: an error of domain exchange wrapped with domain usecase.
C18_Witness ==
    /\ lastOp = "WrapWithDomain"
    /\ lastArg = "usecase"
    /\ GetDomain(prev) = "exchange"
    /\ GetDomain(err) = "usecase"

\* C19: no helper call removes a classification: an error that is temporary
\* (permanent) before a call is temporary (permanent) after it.
C19_MarksAreKept ==
    [][/\ IsTemporary(err) => IsTemporary(err')
       /\ IsPermanent(err) => IsPermanent(err')]_vars

\* C19 witness: a temporary mark that lies under the nodes of later helper
\* calls, the last one WrapWithDomain, is still found.
C19_Witness ==
    /\ depth >= 3
    /\ lastOp = "WrapWithDomain"
    /\ \A i \in 1..3 : err[i].k # "mark"
    /\ HasMarkOf(err, ErrTemporary)
    /\ IsTemporary(err)

\* C20: an error that carries both marks is temporary and permanent.
C20_BothMarksBothTrue ==
    (HasMarkOf(err, ErrTemporary) /\ HasMarkOf(err, ErrPermanent)) =>
        (IsTemporary(err) /\ IsPermanent(err))

\* C20 witness: MarkPermanent applied over a temporary error.
C20_Witness ==
    /\ lastOp = "MarkPermanent"
    /\ HasMarkOf(prev, ErrTemporary)
    /\ IsTemporary(err)
    /\ IsPermanent(err)

\* ---- claims about PanicHandler and SafeGo

\* C13: when fn panics with r, PanicHandler writes exactly one error record
\* tagged with the component, and only then raises r again (no record before
\* the handler, nothing raised before the record, the panic never absorbed);
\* when fn does not panic, no record is written and nothing is raised.
C13_LogThenRepanic ==
    /\ (fnPayload # "" /\ gpc \in {"deferred", "handling"}) =>
           (plogs = <<>> /\ raised = "")
    /\ (fnPayload # "" /\ gpc = "logged") =>
           (plogs = <<PanicRecord(component, fnPayload)>> /\ raised = "")
    /\ (fnPayload # "" /\ gpc \in {"unwinding", "caught", "crashed"}) =>
           (plogs = <<PanicRecord(component, fnPayload)>> /\ raised = fnPayload)
    /\ fnPayload # "" => gpc # "returned"
    /\ (fnPayload = "" /\ gpc \in {"deferred", "returned"}) =>
           (plogs = <<>> /\ raised = "" /\ payload = "")
    /\ gpc = "returned" => fnPayload = ""

\* C13 witness: the handler deferred by the function itself has logged and
\* re-raised, and the outer recover has received the same value.
C13_Witness ==
    /\ pmode = "defer"
    /\ component = "main"
    /\ fnPayload = "critical error in main"
    /\ gpc = "caught"
    /\ Len(plogs) = 1
    /\ harnessSaw = "critical error in main"

\* C14 (as stated): SafeGo("worker", fn), fn panicking with "boom": one error
\* record with "boom", the panic raised again, and the recovering harness of
\* the goroutine that called SafeGo observes it.
C14_HarnessObservesPanic ==
    (pmode = "safego" /\ component = "worker" /\ fnPayload = "boom"
        /\ gpc \in {"caught", "crashed"}) =>
        /\ plogs = <<PanicRecord("worker", "boom")>>
        /\ raised = "boom"
        /\ harnessSaw = "boom"

\* C14 (amended): one error record with "boom", the panic raised again in the
\* new goroutine, where nothing recovers it: the process ends, and the harness
\* of the goroutine that called SafeGo never observes the panic.
C14_PanicEndsProcess ==
    (pmode = "safego" /\ component = "worker" /\ fnPayload = "boom") =>
        /\ harnessSaw = ""
        /\ gpc # "caught"
        /\ gpc \in {"unwinding", "crashed"} =>
               (plogs = <<PanicRecord("worker", "boom")>> /\ raised = "boom")
        /\ gpc = "crashed" => cpc = "crashed"

\* C14 witness: the process has ended after the record and the re-raise.
C14_Witness ==
    /\ pmode = "safego"
    /\ component = "worker"
    /\ fnPayload = "boom"
    /\ gpc = "crashed"
    /\ Len(plogs) = 1
    /\ raised = "boom"

\* C15: a goroutine that reads the logger while others call SetLevel never
\* finds the cell empty: it gets a whole logger, the one of init() or one that
\* a SetLevel stored, and never one older than the store of a SetLevel call
\* that had returned before the read.
C15_ReadersSeeStoredLogger ==
    \A p \in Procs :
        lpc[p] = "loaded" =>
            /\ local[p] # NoLogger
            /\ \E i \in 1..Len(stores) :
                  /\ local[p] = Logger(stores[i].level, stores[i].id)
                  /\ stores[i].level \in Levels
                  /\ i >= floor[p]

\* A goroutine whose SetLevel has returned reads the logger that another
\* goroutine's SetLevel stored after it.
C15_Witness ==
    \E p \in Procs :
        /\ lpc[p] = "loaded"
        /\ floor[p] = 2
        /\ Len(stores) = 3
        /\ local[p].id = stores[3].id
        /\ \E q \in Procs \ {p} : lpc[q] = "stored"

\* C16: SetLevel(name) installs a new logger whose threshold is name when name
\* is exactly debug, info, warn or error, and info for any other name; the
\* logger in the cell is always the one of the latest store.
C16_LevelByExactName ==
    /\ \A i \in 2..Len(stores) :
          /\ stores[i].level = IF stores[i].name \in Levels THEN stores[i].name
                                                           ELSE "info"
          /\ \A j \in 1..(i - 1) : stores[j].id # stores[i].id
    /\ logger = Logger(stores[Len(stores)].level, stores[Len(stores)].id)

\* SetLevel("DEBUG") after SetLevel("error"): the threshold is info again.
C16_Witness ==
    /\ Len(stores) = 3
    /\ stores[2].name = "error"
    /\ stores[3].name = "DEBUG"
    /\ logger.level = "info"
    /\ logger.id # stores[2].id

RECURSIVE DelayOfRound(_)
DelayOfRound(n) ==
    IF n = 1 THEN initialDelay
    ELSE LET d == 2 * DelayOfRound(n - 1)
         IN  IF d > 5 * Second THEN 5 * Second ELSE d

\* C22: the wait of a round with delay d is d + d/5 (integer division) and
\* the next round's delay is min(2*d, 5 seconds), the jitter not carried over:
\* the waits are d0*6/5, 2*d0*6/5, 4*d0*6/5, ... until the delay is capped.
C22_WaitIsDelayPlusFifth ==
    /\ \A i \in 1..Len(waits) :
          waits[i] = DelayOfRound(i) + GoDiv(DelayOfRound(i), 5)
    /\ delay = DelayOfRound(Len(waits) + 1)

\* Initial delay 500ms: waits of 600ms, 1200ms, 2400ms, 4800ms.
C22_Witness ==
    /\ initialDelay = 500
    /\ waits = <<600, 1200, 2400, 4800>>
    /\ delay = 5 * Second

\* C23 (as stated): no backoff wait is longer than 5 seconds.
C23_WaitAtMostCap == \A i \in 1..Len(waits) : waits[i] <= 5 * Second

\* C24: the backoff wait is the driver's only suspension point.  It is entered
\* only after a temporary failure at an attempt below maxRetries; there is
\* exactly one wait between two consecutive invocations, none before the
\* first and none after the last; and while the operation runs no step of
\* the driver returns the cancellation error.
C24_OneWaitBetweenInvocations ==
    /\ [](/\ pc = "wait" => /\ results # <<>>
                            /\ IsTemporary(results[Len(results)])
                            /\ attempt < maxRetries
          /\ pc \in {"op", "wait", "done"} =>
                Len(waits) = IF invoked = <<>> THEN 0 ELSE Len(invoked) - 1
          /\ pc = "loop" =>
                \/ Len(waits) = Len(invoked) /\ attempt <= maxRetries
                \/ Len(waits) = Len(invoked) - 1 /\ attempt > maxRetries
                \/ invoked = <<>> /\ waits = <<>>)
    /\ [][pc = "op" => ret' # Canceled]_vars

\* Three invocations, two waits, the last failure temporary, and the caller
\* had asked for cancellation.
C24_Witness ==
    /\ pc = "done"
    /\ Len(invoked) = 3
    /\ Len(waits) = 2
    /\ IsTemporary(results[3])
    /\ cancelRequested

\* C25: when every call of the operation returns, a run of RetryWithBackoff
\* reaches its return, after at most maxRetries invocations and at most
\* maxRetries - 1 waits (none at all when maxRetries is below 1).
C25_RunTerminates ==
    /\ <>(pc = "done")
    /\ [](/\ Len(invoked) <= Max(maxRetries, 0)
          /\ Len(waits) <= Max(maxRetries - 1, 0))

\* A run of four attempts that used all of them and returned an error.
C25_Witness ==
    /\ pc = "done"
    /\ maxRetries = 4
    /\ Len(invoked) = 4
    /\ Len(waits) = 3
    /\ ret # Nil

\* The first run on a new ExchangeAPI (no call counted before the run, one
\* call per invocation), with the parameters of Example 1.
IsExample1 ==
    /\ maxRetries = 5
    /\ initialDelay = 500
    /\ failureCount = Len(results)

\* C26: Example 1 invokes UpdatePrice exactly four times with three waits and
\* returns the permanent INVALID_SYMBOL error of attempt 4; and UpdatePrice
\* never returns success, whatever the run.
C26_Example1 ==
    /\ \A i \in 1..Len(results) : results[i] # Nil
    /\ IsExample1 =>
          /\ Len(invoked) <= 4
          /\ Len(waits) <= 3
          /\ pc = "done" =>
                /\ invoked = <<1, 2, 3, 4>>
                /\ waits = <<600, 1200, 2400>>
                /\ IsTemporary(results[1]) /\ IsTemporary(results[2])
                /\ IsTemporary(results[3]) /\ IsPermanent(results[4])
                /\ ret = WrapWithDomain(NewExchangeError("INVALID_SYMBOL", FALSE),
                                        "failed to update price", "usecase")
                /\ IsPermanent(ret) /\ ~IsTemporary(ret)

\* Example 1 has returned and main has logged its final result.
C26_Witness ==
    /\ IsExample1
    /\ pc = "done"
    /\ reported
    /\ Len(invoked) = 4
    /\ results[3] = WrapWithDomain(SavePriceErr, "failed to persist price",
                                   "usecase")

\* The requests that a service call has answered.
Answered(kind) ==
    {r \in Requests : hpc[r] = "done" /\ resp[r].kind = kind
                                      /\ resp[r].from = "service"}

\* C21: GET /users/{id} answers an error of GetUser with 404 when it is
\* permanent and 500 otherwise, POST /users answers an error of CreateUser
\* with 400 when it is permanent and 500 otherwise; a temporary or an
\* unclassified error gets 500, and a success never gets a 4xx or 5xx status.
C21_StatusByClassification ==
    /\ \A r \in Answered("get") :
          /\ resp[r].err # Nil /\ IsPermanent(resp[r].err)
                => resp[r].status = 404
          /\ resp[r].err # Nil /\ ~IsPermanent(resp[r].err)
                => resp[r].status = 500
          /\ resp[r].err # Nil /\ IsTemporary(resp[r].err)
                => resp[r].status = 500
          /\ resp[r].err = Nil => resp[r].status < 400
    /\ \A r \in Answered("create") :
          /\ resp[r].err # Nil /\ IsPermanent(resp[r].err)
                => resp[r].status = 400
          /\ resp[r].err # Nil /\ ~IsPermanent(resp[r].err)
                => resp[r].status = 500
          /\ resp[r].err = Nil => resp[r].status < 400
    /\ \A e \in UnmarkedErrs \cup {SavePriceErr, TimeoutErr} :
          GetUserStatus(e) = 500 /\ CreateUserStatus(e) = 500

\* One GET met the database timeout, one GET asked for a user that does not
\* exist, and one POST came without a name.
C21_Witness ==
    /\ \E r \in Answered("get") : resp[r].err = TimeoutErr
    /\ \E r \in Answered("get") : resp[r].err = NotFoundErr(999)
    /\ \E r \in Answered("create") : resp[r].err = Validate("", "d@example.com")

\* C27 (as stated): every CreateUser call stores its user under an ID no
\* other user has: no two calls answer with the same ID, no created user is
\* overwritten, and the map has one more entry per successful call.
C27_UniqueIDs ==
    LET created == {r \in Answered("create") : resp[r].err = Nil}
    IN  /\ \A r, q \in created : r # q => resp[r].id # resp[q].id
        /\ \A r \in created : users[resp[r].id] = body[r].name
        /\ Cardinality(DOMAIN users) = 3 + Cardinality(created)

====
